---- MODULE Spec2Model ----
(***************************************************************************)
(* AirDrop (lacey-griffith/airdrop): the QA hand-off pipeline of           *)
(* post-qa.js, the selection helpers of sharepoint.js, the text functions  *)
(* they share, and the remote job trigger api/dispatch.js.                 *)
(*                                                                         *)
(* The repository holds several revisions of the same files:               *)
(*   post-qa.js   revision "A"  src/unnamed/part_002, lines 1-355           *)
(*                revision "B"  src/unnamed/part_002, lines 357-846         *)
(*                revision "C"  src/unnamed/part_001                        *)
(*   sharepoint.js revision "old" src/sharepoint.js, lines 1-158            *)
(*                revision "new" src/unnamed/part_000                       *)
(*   dispatch.js  revision "current" src/api/dispatch.js, lines 5-91        *)
(*                revision "first" src/api/dispatch.js, lines 108-159       *)
(*                revision "copy"  src/sharepoint.js, lines 164-246         *)
(* Strings are TLA+ strings, read character by character with SubSeq.      *)
(***************************************************************************)
EXTENDS Integers, Sequences, FiniteSets, TLC

VARIABLES
    text,       \* SpecNorm: the string handed to the normalizers
    normed,     \* SpecNorm: the normalizers' results for text, once applied
    cbRev,      \* SpecCheckbox: revision of isCheckboxChecked under test
    cbField,    \* SpecCheckbox: the custom field object found on the task
    cbResult,   \* SpecCheckbox: what isCheckboxChecked returned, once called
    xSp,        \* SpecExcel: revision of sharepoint.js under test
    xTitle,     \* SpecExcel: the task title
    xItems,     \* SpecExcel: the folder listing, in listing order
    xResult,    \* SpecExcel: the index findExcelForTask returned (0: null), once called
    xImages,    \* SpecImages: what getImageFiles returned, once called
    xWorkbook,  \* SpecLinks: the workbook handed to extractPreviewLinksFromXlsx
    xLinks,     \* SpecLinks: the links it returned, once called
    cmIn,       \* SpecCompose: the arguments of buildComment and the comment mode
    cmOut,      \* SpecCompose: the comment text, once composed
    xFolder,    \* SpecFolder: the index findTaskSubfolder returned (0: null), once called
    dHandler,   \* SpecDispatch: revision of the dispatch handler that serves
    dEnv,       \* SpecDispatch: process.env of the handler
    dReq,       \* SpecDispatch: the inbound request
    dPc,        \* SpecDispatch: "idle", "received", "forwarded" or "answered"
    dAuthOk,    \* SpecDispatch: the request passed the shared-secret check
    dForwarded, \* SpecDispatch: the workflow_dispatch requests sent to the build service
    dUpstream,  \* SpecDispatch: the status of the build service's response (0: none)
    dRes,       \* SpecDispatch: the response written to the caller
    rev,        \* Spec: revision of post-qa.js that runs
    sharepoint, \* Spec: revision of sharepoint.js it imports
    requiredStatus, \* Spec: CONFIG.clickup.requiredStatus
    pc,         \* Spec: where run() stands
    outcome,    \* Spec: "running", "gate_failed", "nothing_to_do", "posted", "fatal"
    exitCode,   \* Spec: the process exit code, -1 while running
    task,       \* Spec: the work item of the first cuGet
    task2,      \* Spec: the work item of the re-check cuGet (t2)
    statusNow,  \* Spec: let statusNow
    statusOk,   \* Spec: let statusOk
    passedQA,   \* Spec: let passedQA
    gate,       \* Spec: "pending", "passed" or "failed": the branch "Final decision" took
    calls,      \* Spec: external calls made so far, by kind
    comments,   \* Spec: the comments the tracker accepted, in order
    failPostThrew,  \* Spec: the cuPost of the failure comment threw
    listing,    \* Spec: let items, the listing matched against
    previewLinks,   \* Spec: let previewLinks
    imageItems, \* Spec: the images of the listing still to republish
    uploadedImages, \* Spec: let uploadedImages
    rootItems,  \* Spec: let rootItems, the listing of the QA Doc folder
    excelItem,  \* Spec: let excelItem, as its index in listing (0: none)
    workbook,   \* Spec: the workbook downloaded for excelItem
    failedImages,   \* Spec: names of the images whose download or upload threw
    threw,      \* Spec: the kinds of external call that threw an error so far
    description,    \* Spec: task.description, once step 4 has read it
    attachments,    \* Spec: selectTaskImageAttachments(task), once step 4 has read it
    tokenAnswer \* Spec: how the identity provider answered getGraphToken ("": not asked)

gateVars == <<task, task2, statusNow, statusOk, passedQA, gate>>
storageVars == <<listing, previewLinks, imageItems, uploadedImages, rootItems, excelItem,
                 workbook, failedImages, threw, description, attachments, tokenAnswer>>
runVars == <<rev, sharepoint, requiredStatus, pc, outcome, exitCode, calls, comments, failPostThrew,
             gateVars, storageVars>>

vars == <<text, normed, cbRev, cbField, cbResult, xSp, xTitle, xItems, xResult, xImages,
          xWorkbook, xLinks, cmIn, cmOut, xFolder, dHandler, dEnv, dReq, dPc, dAuthOk,
          dForwarded, dUpstream, dRes, runVars>>

-----------------------------------------------------------------------------
(* Characters and the regular-expression classes the code uses.            *)

UpperLetters == "ABCDEFGHIJKLMNOPQRSTUVWXYZ"
LowerLetters == "abcdefghijklmnopqrstuvwxyz"
DigitChars == "0123456789"

CharAt(s, i) == SubSeq(s, i, i)

UpperSet == { CharAt(UpperLetters, i) : i \in 1..26 }
LowerSet == { CharAt(LowerLetters, i) : i \in 1..26 }
DigitSet == { CharAt(DigitChars, i) : i \in 1..10 }

LowerOf == [c \in UpperSet |->
              CharAt(LowerLetters, CHOOSE i \in 1..26 : CharAt(UpperLetters, i) = c)]
UpperOf == [c \in LowerSet |->
              CharAt(UpperLetters, CHOOSE i \in 1..26 : CharAt(LowerLetters, i) = c)]

\* String.prototype.toLowerCase, one character (ASCII alphabet)
ToLowerChar(c) == IF c \in UpperSet THEN LowerOf[c] ELSE c

ToUpperChar(c) == IF c \in LowerSet THEN UpperOf[c] ELSE c

\* the regex class \s, over the model's alphabet: space and tab
IsSpace(c) == c = " " \/ c = "\t"

\* the regex class \w: [A-Za-z0-9_]
WordSet == UpperSet \cup LowerSet \cup DigitSet \cup {"_"}

IsWord(c) == c \in WordSet

RECURSIVE ToLowerFrom(_, _)
ToLowerFrom(s, i) ==
    IF i > Len(s) THEN "" ELSE ToLowerChar(CharAt(s, i)) \o ToLowerFrom(s, i + 1)

ToLowerCase(s) == ToLowerFrom(s, 1)

RECURSIVE ToUpperFrom(_, _)
ToUpperFrom(s, i) ==
    IF i > Len(s) THEN "" ELSE ToUpperChar(CharAt(s, i)) \o ToUpperFrom(s, i + 1)

ToUpperCase(s) == ToUpperFrom(s, 1)

\* String.prototype.trim
RECURSIVE TrimStart(_)
TrimStart(s) ==
    IF Len(s) > 0 /\ IsSpace(CharAt(s, 1)) THEN TrimStart(SubSeq(s, 2, Len(s))) ELSE s

RECURSIVE TrimEnd(_)
TrimEnd(s) ==
    IF Len(s) > 0 /\ IsSpace(CharAt(s, Len(s))) THEN TrimEnd(SubSeq(s, 1, Len(s) - 1)) ELSE s

Trim(s) == TrimEnd(TrimStart(s))

\* s.replace(/\s+/g, " "): every maximal run of whitespace becomes one space
RECURSIVE CollapseWsFrom(_, _, _)
CollapseWsFrom(s, i, inRun) ==
    IF i > Len(s) THEN ""
    ELSE IF IsSpace(CharAt(s, i))
         THEN (IF inRun THEN "" ELSE " ") \o CollapseWsFrom(s, i + 1, TRUE)
         ELSE CharAt(s, i) \o CollapseWsFrom(s, i + 1, FALSE)

CollapseWs(s) == CollapseWsFrom(s, 1, FALSE)

\* s.replace(/[^\w\s]/g, ""): drop what is neither a word character nor whitespace
RECURSIVE StripPunctFrom(_, _)
StripPunctFrom(s, i) ==
    IF i > Len(s) THEN ""
    ELSE (IF IsWord(CharAt(s, i)) \/ IsSpace(CharAt(s, i)) THEN CharAt(s, i) ELSE "")
         \o StripPunctFrom(s, i + 1)

StripPunct(s) == StripPunctFrom(s, 1)

StartsWith(s, p) == Len(p) <= Len(s) /\ SubSeq(s, 1, Len(p)) = p

EndsWith(s, p) == Len(p) <= Len(s) /\ SubSeq(s, Len(s) - Len(p) + 1, Len(s)) = p

Includes(s, p) == \E i \in 0..(Len(s) - Len(p)) : SubSeq(s, i + 1, i + Len(p)) = p

-----------------------------------------------------------------------------
(* Text Normalizer                                                         *)

\* post-qa.js (B, C) and sharepoint.js (new): normalize
normalize(s) == Trim(StripPunct(CollapseWs(ToLowerCase(s))))

\* stands for U+2013 / U+2014 (en and em dash) in the model's alphabet
EnDash == "~"

\* s.replace(/[–—]/g, "-")
RECURSIVE FoldDashFrom(_, _)
FoldDashFrom(s, i) ==
    IF i > Len(s) THEN ""
    ELSE (IF CharAt(s, i) = EnDash THEN "-" ELSE CharAt(s, i)) \o FoldDashFrom(s, i + 1)

FoldDash(s) == FoldDashFrom(s, 1)

\* s.replace(/[_\s]+/g, " ")
RECURSIVE CollapseUsWsFrom(_, _, _)
CollapseUsWsFrom(s, i, inRun) ==
    IF i > Len(s) THEN ""
    ELSE IF IsSpace(CharAt(s, i)) \/ CharAt(s, i) = "_"
         THEN (IF inRun THEN "" ELSE " ") \o CollapseUsWsFrom(s, i + 1, TRUE)
         ELSE CharAt(s, i) \o CollapseUsWsFrom(s, i + 1, FALSE)

CollapseUsWs(s) == CollapseUsWsFrom(s, 1, FALSE)

\* s.replace(/[^\w.\- ]+/g, "")
RECURSIVE KeepNameCharsFrom(_, _)
KeepNameCharsFrom(s, i) ==
    IF i > Len(s) THEN ""
    ELSE (IF IsWord(CharAt(s, i)) \/ CharAt(s, i) \in {".", "-", " "}
          THEN CharAt(s, i) ELSE "")
         \o KeepNameCharsFrom(s, i + 1)

KeepNameChars(s) == KeepNameCharsFrom(s, 1)

\* sharepoint.js (old): findExcelForTask.norm
norm(s) == Trim(KeepNameChars(CollapseUsWs(FoldDash(ToLowerCase(s)))))

-----------------------------------------------------------------------------
(* Gate Evaluator: checkbox truthiness                                     *)

\* A custom field as findCustomField / getCustomField hands it over: found or
\* not, and its raw value: a boolean, a number, a string, or no value.
Field(kind, b, n, str) == [found |-> TRUE, kind |-> kind, b |-> b, n |-> n, s |-> str]

NoField == [found |-> FALSE, kind |-> "none", b |-> FALSE, n |-> 0, s |-> ""]
NoValue == Field("none", FALSE, 0, "")
BoolValue(b) == Field("bool", b, 0, "")
NumValue(n) == Field("num", FALSE, n, "")
StrValue(str) == Field("str", FALSE, 0, str)

\* post-qa.js revision A: cf && (cf.value === true || cf.value === 1 || cf.value === '1')
isCheckboxCheckedA(cf) ==
    /\ cf.found
    /\ \/ cf.kind = "bool" /\ cf.b
       \/ cf.kind = "num" /\ cf.n = 1
       \/ cf.kind = "str" /\ cf.s = "1"

\* post-qa.js revisions B and C
isCheckboxCheckedBC(cfObj) ==
    IF cfObj.found /\ ((cfObj.kind = "bool" /\ cfObj.b) \/ (cfObj.kind = "num" /\ cfObj.n = 1))
    THEN TRUE
    ELSE IF cfObj.found /\ cfObj.kind = "str"
         THEN LET s == ToLowerCase(Trim(cfObj.s))
              IN  s = "true" \/ s = "1" \/ s = "yes" \/ s = "checked" \/ s = "on"
         ELSE FALSE

isCheckboxChecked(r, cf) ==
    IF r = "A" THEN isCheckboxCheckedA(cf) ELSE isCheckboxCheckedBC(cf)

Revisions == {"A", "B", "C"}

-----------------------------------------------------------------------------
(* Gate Evaluator: status comparison, re-check and failure comment        *)

\* CONFIG.clickup.requiredStatus as each revision of post-qa.js ships it
DefaultRequiredStatus(r) ==
    IF r = "A" THEN "Needs Approval Dev"
    ELSE IF r = "B" THEN "Needs Approval (Dev)"
    ELSE "needs approval (dev)"

\* CONFIG.notifications.postGateFailureComment
PostGateFailureComment == TRUE

\* the pattern `^${requiredStatus}$` read as a regular expression: the labels of
\* the model hold letters, spaces and one balanced pair of parentheses, and in a
\* pattern the parentheses group instead of matching themselves
RECURSIVE DropParensFrom(_, _)
DropParensFrom(s, i) ==
    IF i > Len(s) THEN ""
    ELSE (IF CharAt(s, i) \in {"(", ")"} THEN "" ELSE CharAt(s, i)) \o DropParensFrom(s, i + 1)

\* revision A: new RegExp(`^${requiredStatus}$`, "i").test(statusName)
StatusMatchesA(status, required) ==
    ToLowerCase(status) = ToLowerCase(DropParensFrom(required, 1))

\* mutant of StatusMatchesBC: a substring match on the normalized form
StatusMatchesBC_Substring(status, required) ==
    Includes(normalize(status), normalize(required))

\* revisions B and C: normalize(statusNow) === normalize(requiredStatus)
StatusMatchesBC(status, required) == normalize(status) = normalize(required)

StatusMatches(r, status, required) ==
    IF r = "A" THEN StatusMatchesA(status, required) ELSE StatusMatchesBC(status, required)

\* revision C: /^qa(?:\s*\(dev\))?$/i.test(statusNow)
IsPendingC(status) ==
    LET s == ToLowerCase(status)
    IN  \/ s = "qa"
        \/ /\ StartsWith(s, "qa")
           /\ EndsWith(s, "(dev)")
           /\ Len(s) >= 7
           /\ \A i \in 3..(Len(s) - 5) : IsSpace(CharAt(s, i))

\* revision B: statusNowNorm === normalize("QA") || statusNowNorm === normalize("QA (Dev)")
IsPendingB(status) ==
    normalize(status) = normalize("QA") \/ normalize(status) = normalize("QA (Dev)")

\* the condition of the one re-check; revision A has none
NeedsRecheck(r, ok, passed, status) ==
    /\ r # "A"
    /\ ~ok
    /\ passed
    /\ IF r = "B" THEN IsPendingB(status) ELSE IsPendingC(status)

\* mutant of FinalDecision: the checkbox is not part of the decision
FinalDecision_StatusOnly(ok, passed) == IF ~ok THEN "failed" ELSE "passed"

\* "Final decision": if (!statusOk || !passedQA)
FinalDecision(ok, passed) == IF ~ok \/ ~passed THEN "failed" ELSE "passed"

\* where the run stands after "Final decision" and "Resolve SharePoint folder URL"
PcAfterDecision(ok, passed, docUrl) ==
    IF FinalDecision(ok, passed) = "failed"
    THEN (IF PostGateFailureComment THEN "postFail" ELSE "done")
    ELSE IF docUrl = "" THEN "done" ELSE "token"

PcAfterFirstEval(r, ok, passed, status, docUrl) ==
    IF NeedsRecheck(r, ok, passed, status) THEN "recheck"
    ELSE PcAfterDecision(ok, passed, docUrl)

\* mutant of PcAfterRecheck: the safety-net written as a loop
PcAfterRecheck_Loop(r, ok, passed, status, docUrl) ==
    PcAfterFirstEval(r, ok, passed, status, docUrl)

\* the re-check is an if, not a loop: the decision follows whatever it saw
PcAfterRecheck(r, ok, passed, status, docUrl) == PcAfterDecision(ok, passed, docUrl)

GateAt(pcNext, ok, passed) ==
    IF pcNext = "recheck" THEN "pending" ELSE FinalDecision(ok, passed)

\* return / process.exit(0) after the gate: gate failure, or no folder URL on the task
OutcomeAt(pcNext, ok, passed) ==
    IF pcNext # "done" THEN "running"
    ELSE IF FinalDecision(ok, passed) = "failed" THEN "gate_failed"
    ELSE "nothing_to_do"

\* statusNow || "Unknown"
ShownStatus(status) == IF status = "" THEN "Unknown" ELSE status

\* the failure comment (its leading emoji left out)
FailMsg(r, required, status) ==
    IF r = "A"
    THEN "AirDrop Status: Fail. Status must be [Needs Approval (Dev)] and Passed QA must be checked. Current Status: ["
         \o ShownStatus(status) \o "]."
    ELSE "AirDrop Status: Fail. Status must be [" \o required
         \o "] and Passed QA must be checked. Current Status: ["
         \o ShownStatus(status) \o "]."

-----------------------------------------------------------------------------
(* Artifact Matcher: spreadsheet selection                                 *)

XlsxMime == "application/vnd.openxmlformats-officedocument.spreadsheetml.sheet"

\* A folder entry of a listing. sharepoint.js (new) reads the Graph facets
\* file / folder (isFile = !!it.file, isFolder = !!it.folder); a drive item
\* carries exactly one of them, so isFile(it) is ~it.isFolder.
Entry(name, isFolder, mime) == [name |-> name, isFolder |-> isFolder, mime |-> mime]

\* Array.prototype.find as the least of the indices of the elements that satisfy the
\* callback (hits), 0 if none does
FindIndex(hits) ==
    IF hits = {} THEN 0 ELSE CHOOSE i \in hits : \A j \in hits : i <= j

\* /\.xlsx?$/i.test(name)
isExcel(n) == EndsWith(ToLowerCase(n), ".xlsx") \/ EndsWith(ToLowerCase(n), ".xls")

\* /preview/i.test(name)
HasPreview(n) == Includes(ToLowerCase(n), "preview")

\* n.replace(/\.(xlsx?|XLSX?)$/, ""): only an all-lower or all-upper extension goes
StripExtNew(n) ==
    IF EndsWith(n, ".xlsx") \/ EndsWith(n, ".XLSX") THEN SubSeq(n, 1, Len(n) - 5)
    ELSE IF EndsWith(n, ".xls") \/ EndsWith(n, ".XLS") THEN SubSeq(n, 1, Len(n) - 4)
    ELSE n

\* sharepoint.js (new): base = (n) => normalize(n.replace(...))
baseNew(n) == normalize(StripExtNew(n))

\* s.replace(/\.xlsx?$/, "") on an already lower-cased name
StripExtOld(n) ==
    IF EndsWith(n, ".xlsx") THEN SubSeq(n, 1, Len(n) - 5)
    ELSE IF EndsWith(n, ".xls") THEN SubSeq(n, 1, Len(n) - 4)
    ELSE n

\* the candidates of each revision: a file with a spreadsheet extension
IsCandidate(f) == ~f.isFolder /\ isExcel(f.name)

\* the tier tests of sharepoint.js (new)
ExactNew(f, title) == IsCandidate(f) /\ baseNew(f.name) = normalize(title)
StartsNew(f, title) == IsCandidate(f) /\ StartsWith(baseNew(f.name), normalize(title) \o " ")
PreviewMatch(f) == IsCandidate(f) /\ HasPreview(f.name)

\* the tier tests of sharepoint.js (old)
ExactOld(f, title) == IsCandidate(f) /\ StripExtOld(norm(f.name)) = norm(title)
StartsOld(f, title) == IsCandidate(f) /\ StartsWith(norm(f.name), norm(title) \o " ")

\* mutant of findExcelForTaskNew: the "preview" tier tried before the prefix tier
findExcelForTaskNew_PreviewFirst(items, taskTitle) ==
    LET IsEx(f) == ExactNew(f, taskTitle)
        IsSt(f) == StartsNew(f, taskTitle)
        first == FindIndex({ i \in 1..Len(items) : IsCandidate(items[i]) })
        exact == FindIndex({ i \in 1..Len(items) : IsEx(items[i]) })
        starts == FindIndex({ i \in 1..Len(items) : IsSt(items[i]) })
        preview == FindIndex({ i \in 1..Len(items) : PreviewMatch(items[i]) })
    IN  IF first = 0 THEN 0
        ELSE IF exact # 0 THEN exact
        ELSE IF preview # 0 THEN preview
        ELSE IF starts # 0 THEN starts
        ELSE first

\* sharepoint.js (new): findExcelForTask, as the index of the entry it returns (0: null)
findExcelForTaskNew(items, taskTitle) ==
    LET IsEx(f) == ExactNew(f, taskTitle)
        IsSt(f) == StartsNew(f, taskTitle)
        first == FindIndex({ i \in 1..Len(items) : IsCandidate(items[i]) })
        exact == FindIndex({ i \in 1..Len(items) : IsEx(items[i]) })
        starts == FindIndex({ i \in 1..Len(items) : IsSt(items[i]) })
        preview == FindIndex({ i \in 1..Len(items) : PreviewMatch(items[i]) })
    IN  IF first = 0 THEN 0
        ELSE IF exact # 0 THEN exact
        ELSE IF starts # 0 THEN starts
        ELSE IF preview # 0 THEN preview
        ELSE first

\* mutant of findExcelForTaskOld: no last-resort tier
findExcelForTaskOld_NoFallback(items, taskTitle) ==
    LET IsEx(f) == ExactOld(f, taskTitle)
        IsSt(f) == StartsOld(f, taskTitle)
        exact == FindIndex({ i \in 1..Len(items) : IsEx(items[i]) })
        starts == FindIndex({ i \in 1..Len(items) : IsSt(items[i]) })
        preview == FindIndex({ i \in 1..Len(items) : PreviewMatch(items[i]) })
    IN  IF exact # 0 THEN exact
        ELSE IF starts # 0 THEN starts
        ELSE IF preview # 0 THEN preview
        ELSE 0

\* sharepoint.js (old): findExcelForTask
findExcelForTaskOld(items, taskTitle) ==
    LET IsEx(f) == ExactOld(f, taskTitle)
        IsSt(f) == StartsOld(f, taskTitle)
        exact == FindIndex({ i \in 1..Len(items) : IsEx(items[i]) })
        starts == FindIndex({ i \in 1..Len(items) : IsSt(items[i]) })
        preview == FindIndex({ i \in 1..Len(items) : PreviewMatch(items[i]) })
    IN  IF exact # 0 THEN exact
        ELSE IF starts # 0 THEN starts
        ELSE IF preview # 0 THEN preview
        ELSE FindIndex({ i \in 1..Len(items) : IsCandidate(items[i]) })

\* mutant of findTaskSubfolder: items.filter(isFolder) is left out
findTaskSubfolder_AnyEntry(items, taskTitle) ==
    LET want == normalize(taskTitle)
        IsEx(f) == normalize(f.name) = want
        IsSt(f) == StartsWith(normalize(f.name), want \o " ")
        IsIn(f) == Includes(normalize(f.name), want)
        exact == FindIndex({ i \in 1..Len(items) : IsEx(items[i]) })
        starts == FindIndex({ i \in 1..Len(items) : IsSt(items[i]) })
    IN  IF exact # 0 THEN exact
        ELSE IF starts # 0 THEN starts
        ELSE FindIndex({ i \in 1..Len(items) : IsIn(items[i]) })

\* sharepoint.js (new): findTaskSubfolder, as the index of the folder it returns (0: null)
findTaskSubfolder(items, taskTitle) ==
    LET want == normalize(taskTitle)
        IsEx(f) == f.isFolder /\ normalize(f.name) = want
        IsSt(f) == f.isFolder /\ StartsWith(normalize(f.name), want \o " ")
        IsIn(f) == f.isFolder /\ Includes(normalize(f.name), want)
        exact == FindIndex({ i \in 1..Len(items) : IsEx(items[i]) })
        starts == FindIndex({ i \in 1..Len(items) : IsSt(items[i]) })
    IN  IF exact # 0 THEN exact
        ELSE IF starts # 0 THEN starts
        ELSE FindIndex({ i \in 1..Len(items) : IsIn(items[i]) })

\* CONFIG.sharepoint.imageExtensions: /\.(png|jpe?g|webp|gif)$/i
HasImageExt(n) ==
    \E ext \in {".png", ".jpg", ".jpeg", ".webp", ".gif"} : EndsWith(ToLowerCase(n), ext)

\* sharepoint.js (new): getImageFiles, name or mime type
IsImageNew(f) ==
    ~f.isFolder /\ (HasImageExt(f.name) \/ StartsWith(ToLowerCase(f.mime), "image/"))

\* sharepoint.js (old): getImageFiles, name only
IsImageOld(f) == ~f.isFolder /\ HasImageExt(f.name)

getImageFiles(sp, items) ==
    LET Is(f) == IF sp = "new" THEN IsImageNew(f) ELSE IsImageOld(f)
    IN  SelectSeq(items, Is)

SpRevisions == {"old", "new"}

findExcelForTask(sp, items, taskTitle) ==
    IF sp = "new" THEN findExcelForTaskNew(items, taskTitle)
    ELSE findExcelForTaskOld(items, taskTitle)

-----------------------------------------------------------------------------
(* Each specification below drives one part of the state and leaves the   *)
(* rest at these values.                                                   *)

NormIdle ==
    /\ text = ""
    /\ normed = [done |-> FALSE, normalize |-> "", norm |-> ""]

CheckboxIdle ==
    /\ cbRev = "B"
    /\ cbField = NoField
    /\ cbResult = [done |-> FALSE, checked |-> FALSE]

ExcelIdle ==
    /\ xSp = "new"
    /\ xTitle = ""
    /\ xItems = <<>>
    /\ xResult = [done |-> FALSE, idx |-> 0]

ImagesIdle == xImages = [done |-> FALSE, images |-> <<>>]

LinksIdle ==
    /\ xWorkbook = <<>>
    /\ xLinks = [done |-> FALSE, links |-> <<>>]

NoCompose ==
    [composer |-> "BC", isDraft |-> FALSE, includeMentions |-> FALSE, mentionIds |-> <<>>,
     links |-> <<>>, images |-> <<>>]

ComposeIdle ==
    /\ cmIn = NoCompose
    /\ cmOut = [done |-> FALSE, text |-> <<>>]

FolderIdle == xFolder = [done |-> FALSE, idx |-> 0]

NoRequest == [qToken |-> "", hToken |-> "", auth |-> "", bToken |-> "", taskId |-> ""]

NoResponse == [status |-> 0, ok |-> FALSE, taskId |-> "", upstream |-> 0]

DispatchIdle ==
    /\ dHandler = "current"
    /\ dEnv = [secret |-> "", gh |-> FALSE]
    /\ dReq = NoRequest
    /\ dPc = "off"
    /\ dAuthOk = FALSE
    /\ dForwarded = <<>>
    /\ dUpstream = 0
    /\ dRes = NoResponse

NoCalls == [get |-> 0, post |-> 0, token |-> 0, list |-> 0, download |-> 0, upload |-> 0]

NoTask == [name |-> "", status |-> "", passed |-> NoField, docUrl |-> ""]

RunIdle ==
    /\ rev = "B"
    /\ sharepoint = "new"
    /\ requiredStatus = DefaultRequiredStatus("B")
    /\ pc = "idle"
    /\ outcome = "running"
    /\ exitCode = -1
    /\ task = NoTask
    /\ task2 = NoTask
    /\ statusNow = ""
    /\ statusOk = FALSE
    /\ passedQA = FALSE
    /\ gate = "pending"
    /\ calls = NoCalls
    /\ comments = <<>>
    /\ failPostThrew = FALSE
    /\ listing = <<>>
    /\ previewLinks = <<>>
    /\ imageItems = <<>>
    /\ uploadedImages = <<>>
    /\ rootItems = <<>>
    /\ excelItem = 0
    /\ workbook = <<>>
    /\ failedImages = <<>>
    /\ threw = {}
    /\ description = <<>>
    /\ attachments = <<>>
    /\ tokenAnswer = ""

normVars == <<text, normed>>
checkboxVars == <<cbRev, cbField, cbResult>>
excelVars == <<xSp, xTitle, xItems, xResult>>
imageVars == <<xImages>>
linkVars == <<xWorkbook, xLinks>>
composeVars == <<cmIn, cmOut>>
folderVars == <<xFolder>>
dispatchVars == <<dHandler, dEnv, dReq, dPc, dAuthOk, dForwarded, dUpstream, dRes>>
pureVars == <<imageVars, linkVars, composeVars, folderVars, dispatchVars>>

-----------------------------------------------------------------------------
(* SpecNorm: the normalizers applied to every string over NormAlphabet of  *)
(* at most MaxTextLen characters.                                          *)

MaxTextLen == 5

NormAlphabet == {"a", "B", " ", "\t", "-", "_", "(", EnDash}

NormInit ==
    /\ text = ""
    /\ normed = [done |-> FALSE, normalize |-> "", norm |-> ""]
    /\ CheckboxIdle
    /\ ExcelIdle
    /\ RunIdle
    /\ ImagesIdle
    /\ LinksIdle
    /\ ComposeIdle
    /\ FolderIdle
    /\ DispatchIdle

\* the caller extends the string it is about to normalize
TypeChar ==
    /\ ~normed.done
    /\ Len(text) < MaxTextLen
    /\ \E c \in NormAlphabet : text' = text \o c
    /\ UNCHANGED <<normed, checkboxVars, excelVars, runVars, pureVars>>

\* normalize(text) and norm(text)
ApplyNormalize ==
    /\ ~normed.done
    /\ normed' = [done |-> TRUE, normalize |-> normalize(text), norm |-> norm(text)]
    /\ UNCHANGED <<text, checkboxVars, excelVars, runVars, pureVars>>

NormNext == TypeChar \/ ApplyNormalize

SpecNorm == NormInit /\ [][NormNext]_vars

\* C8: normalization is idempotent, normalize(normalize(x)) = normalize(x) for
\* every string x, for the normalizer of post-qa.js / sharepoint.js and for the
\* name normalizer of findExcelForTask.
C8_NormalizeIdempotent ==
    normed.done =>
        /\ normalize(normed.normalize) = normed.normalize
        /\ norm(normed.norm) = normed.norm

-----------------------------------------------------------------------------
(* SpecCheckbox: isCheckboxChecked of each revision on raw field values.   *)

CheckboxWords == {"true", "1", "yes", "checked", "on", "", "false", "0", "no", "off", "y", "11"}
Paddings == {"", " "}

CheckboxStrings ==
    { lead \o w \o trail : lead \in Paddings, w \in CheckboxWords, trail \in Paddings }
    \cup { lead \o ToUpperCase(w) \o trail :
             lead \in Paddings, w \in CheckboxWords, trail \in Paddings }

CheckboxFields ==
    {NoField, NoValue}
    \cup { BoolValue(b) : b \in BOOLEAN }
    \cup { NumValue(n) : n \in 0..2 }
    \cup { StrValue(str) : str \in CheckboxStrings }

CheckboxInit ==
    /\ cbRev \in Revisions
    /\ cbField = NoField
    /\ cbResult = [done |-> FALSE, checked |-> FALSE]
    /\ NormIdle
    /\ ExcelIdle
    /\ RunIdle
    /\ ImagesIdle
    /\ LinksIdle
    /\ ComposeIdle
    /\ FolderIdle
    /\ DispatchIdle

\* the tracker returns the task with some raw value in the checkbox field
ReadField ==
    /\ ~cbResult.done
    /\ cbField = NoField
    /\ \E f \in CheckboxFields \ {NoField} : cbField' = f
    /\ UNCHANGED <<cbRev, cbResult, normVars, excelVars, runVars, pureVars>>

ApplyCheckbox ==
    /\ ~cbResult.done
    /\ cbResult' = [done |-> TRUE, checked |-> isCheckboxChecked(cbRev, cbField)]
    /\ UNCHANGED <<cbRev, cbField, normVars, excelVars, runVars, pureVars>>

CheckboxNext == ReadField \/ ApplyCheckbox

SpecCheckbox == CheckboxInit /\ [][CheckboxNext]_vars

\* the checkbox rule as the claim words it
CheckedByRule(cf) ==
    /\ cf.found
    /\ \/ cf.kind = "bool" /\ cf.b
       \/ cf.kind = "num" /\ cf.n = 1
       \/ cf.kind = "str" /\ ToLowerCase(cf.s) \in {"true", "1", "yes", "checked", "on"}

\* C7: the checkbox is checked exactly when its raw value is true, 1, or a string
\* case-insensitively equal to "true", "1", "yes", "checked" or "on"; every other
\* value, an absent field or value included, is unchecked.
C7_CheckboxTruthiness ==
    cbResult.done => (cbResult.checked <=> CheckedByRule(cbField))

-----------------------------------------------------------------------------
(* SpecExcel: findExcelForTask of each sharepoint.js revision on listings  *)
(* of at most MaxItems entries.                                            *)

MaxItems == 3

EntryPool ==
    { Entry("Task A.xlsx", FALSE, XlsxMime),
      Entry("Task A - v2.xlsx", FALSE, XlsxMime),
      Entry("preview-notes.xlsx", FALSE, XlsxMime),
      Entry("random.xlsx", FALSE, XlsxMime),
      Entry("TASK A.XLS", FALSE, "application/vnd.ms-excel"),
      Entry("Task A.Xlsx", FALSE, XlsxMime),
      Entry("Task A.xlsx", TRUE, ""),
      Entry("shot.png", FALSE, "image/png") }

TitlePool == {"Task A", "Nonexistent"}

ExcelInit ==
    /\ xSp \in SpRevisions
    /\ xTitle \in TitlePool
    /\ xItems = <<>>
    /\ xResult = [done |-> FALSE, idx |-> 0]
    /\ NormIdle
    /\ CheckboxIdle
    /\ RunIdle
    /\ ImagesIdle
    /\ LinksIdle
    /\ ComposeIdle
    /\ FolderIdle
    /\ DispatchIdle

\* the folder lister returns one more entry
ListEntry ==
    /\ ~xResult.done
    /\ Len(xItems) < MaxItems
    /\ \E e \in EntryPool : xItems' = Append(xItems, e)
    /\ UNCHANGED <<xSp, xTitle, xResult, normVars, checkboxVars, runVars, pureVars>>

SelectExcel ==
    /\ ~xResult.done
    /\ xResult' = [done |-> TRUE, idx |-> findExcelForTask(xSp, xItems, xTitle)]
    /\ UNCHANGED <<xSp, xTitle, xItems, normVars, checkboxVars, runVars, pureVars>>

ExcelNext == ListEntry \/ SelectExcel

SpecExcel == ExcelInit /\ [][ExcelNext]_vars

\* the tier of a candidate: 1 exact, 2 prefix, 3 "preview" in the name, 4 any spreadsheet
Tier(sp, f, title) ==
    IF (IF sp = "new" THEN ExactNew(f, title) ELSE ExactOld(f, title)) THEN 1
    ELSE IF (IF sp = "new" THEN StartsNew(f, title) ELSE StartsOld(f, title)) THEN 2
    ELSE IF PreviewMatch(f) THEN 3
    ELSE 4

IsSpreadsheetFile(f) ==
    /\ ~f.isFolder
    /\ \/ EndsWith(ToLowerCase(f.name), ".xlsx")
       \/ EndsWith(ToLowerCase(f.name), ".xls")

Spreadsheets(items) == { i \in 1..Len(items) : IsSpreadsheetFile(items[i]) }

C10_LastResort ==
    xResult.done =>
        /\ xResult.idx = 0 <=> Spreadsheets(xItems) = {}
        /\ (Spreadsheets(xItems) # {}
            /\ \A i \in Spreadsheets(xItems) : Tier(xSp, xItems[i], xTitle) = 4)
              => /\ xResult.idx \in Spreadsheets(xItems)
                 /\ \A i \in Spreadsheets(xItems) : xResult.idx <= i

\* "random.xlsx" behind a folder and an image is selected for title "Nonexistent"
C10_Witness ==
    /\ xResult.done
    /\ xTitle = "Nonexistent"
    /\ Len(xItems) = 3
    /\ xItems[1].isFolder
    /\ xItems[2].name = "shot.png"
    /\ xItems[3].name = "random.xlsx"
    /\ xResult.idx = 3

-----------------------------------------------------------------------------
(* SpecImages: getImageFiles of each sharepoint.js revision on listings of *)
(* at most MaxItems entries.                                               *)

ImageEntryPool ==
    { Entry("shot.png", FALSE, "image/png"),
      Entry("scan-01", FALSE, "image/jpeg"),
      Entry("photo.JPG", FALSE, "application/octet-stream"),
      Entry("notes.txt", FALSE, "text/plain"),
      Entry("pics.png", TRUE, ""),
      Entry("Task A.xlsx", FALSE, XlsxMime) }

ImagesInit ==
    /\ xSp \in SpRevisions
    /\ xTitle = ""
    /\ xItems = <<>>
    /\ xResult = [done |-> FALSE, idx |-> 0]
    /\ xImages = [done |-> FALSE, images |-> <<>>]
    /\ NormIdle
    /\ CheckboxIdle
    /\ RunIdle
    /\ LinksIdle
    /\ ComposeIdle
    /\ FolderIdle
    /\ DispatchIdle

\* the folder listing grows by one entry
ListImageEntry ==
    /\ ~xImages.done
    /\ Len(xItems) < MaxItems
    /\ \E f \in ImageEntryPool : xItems' = Append(xItems, f)
    /\ UNCHANGED <<xSp, xTitle, xResult, xImages, normVars, checkboxVars, runVars, linkVars,
                   composeVars, folderVars, dispatchVars>>

\* getImageFiles(items, CONFIG.sharepoint.imageExtensions)
SelectImages ==
    /\ ~xImages.done
    /\ xImages' = [done |-> TRUE, images |-> getImageFiles(xSp, xItems)]
    /\ UNCHANGED <<xSp, xTitle, xItems, xResult, normVars, checkboxVars, runVars, linkVars,
                   composeVars, folderVars, dispatchVars>>

ImagesNext == ListImageEntry \/ SelectImages

SpecImages == ImagesInit /\ [][ImagesNext]_vars

\* the claim's rule: not a folder, and an image by name or by declared mime type
\* (the type compared without regard to letter case)
IsImageByRule(f) ==
    /\ ~f.isFolder
    /\ HasImageExt(f.name) \/ StartsWith(ToLowerCase(f.mime), "image/")

\* C12: an entry is classified as an image exactly when it is not a folder and
\* its name matches the image-extension pattern or its declared mime type begins
\* with "image/"; getImageFiles returns those entries, in listing order.
C12_ImageByNameOrMime ==
    xImages.done => xImages.images = SelectSeq(xItems, IsImageByRule)

-----------------------------------------------------------------------------
(* Comment Composer                                                        *)

\* CONFIG.commentMode: revisions B and C ship "draft"; revision A has no modes
IsDraft(r) == r # "A"

\* CONFIG.draft.bannerText (its emoji left out, the dash as ASCII)
BannerText == "DRAFT - Review before sending"

\* !isDraft && CONFIG.final.includeMentions; revision A passes no flag and
\* buildComment of revision A looks at mentionIds alone
IncludeMentions(r) == IF r = "A" THEN TRUE ELSE ~IsDraft(r)

\* mutant of Dedup: every occurrence is kept
Dedup_KeepAll(xs) == xs

\* Array.from(new Set(xs)): first occurrences, in order
RECURSIVE Dedup(_)
Dedup(xs) ==
    IF xs = <<>> THEN <<>>
    ELSE LET front == Dedup(SubSeq(xs, 1, Len(xs) - 1))
             last == xs[Len(xs)]
         IN  IF \E i \in 1..Len(front) : front[i] = last THEN front ELSE Append(front, last)

DigitStr(i) == CharAt(DigitChars, i + 1)

\* formatMentions
RECURSIVE formatMentions(_)
formatMentions(userIds) ==
    IF userIds = <<>> THEN ""
    ELSE "<@" \o Head(userIds) \o ">"
         \o (IF Len(userIds) > 1 THEN " " \o formatMentions(Tail(userIds)) ELSE "")

\* mutant of buildComment: an empty section is left out
buildComment_OmitsEmpty(taskName, links, images, mentionIds, includeMentions) ==
    (IF includeMentions /\ mentionIds # <<>> THEN <<formatMentions(mentionIds), "">> ELSE <<>>)
    \o <<"**QA Passed -> Preview Links for _" \o taskName \o "_**", "">>
    \o (IF links # <<>>
        THEN <<"**Preview Links**">>
             \o [i \in 1..Len(links) |-> "- [Link " \o DigitStr(i) \o "](" \o links[i] \o ")"]
             \o <<"">>
        ELSE <<>>)
    \o (IF images # <<>>
        THEN <<"**QA Images**">>
             \o [i \in 1..Len(images) |->
                   "- " \o (IF images[i].name = "" THEN "image" ELSE images[i].name)
                   \o " -> " \o images[i].url]
        ELSE <<"_No QA images found._">>)

\* buildComment: the lines pushed, in order (they are joined with "\n")
buildComment(taskName, links, images, mentionIds, includeMentions) ==
    (IF includeMentions /\ mentionIds # <<>> THEN <<formatMentions(mentionIds), "">> ELSE <<>>)
    \o <<"**QA Passed -> Preview Links for _" \o taskName \o "_**", "">>
    \o (IF links # <<>>
        THEN <<"**Preview Links**">>
             \o [i \in 1..Len(links) |-> "- [Link " \o DigitStr(i) \o "](" \o links[i] \o ")"]
             \o <<"">>
        ELSE <<"_No preview links found._", "">>)
    \o (IF images # <<>>
        THEN <<"**QA Images**">>
             \o [i \in 1..Len(images) |->
                   "- " \o (IF images[i].name = "" THEN "image" ELSE images[i].name)
                   \o " -> " \o images[i].url]
        ELSE <<"_No QA images found._">>)

\* mutant of CommentText: the banner is appended
CommentText_BannerLast(r, taskName, links, images, mentionIds) ==
    buildComment(taskName, links, images, mentionIds, IncludeMentions(r))
    \o (IF IsDraft(r) THEN <<"", BannerText>> ELSE <<>>)

\* the text handed to cuPost: the banner first in draft mode
CommentText(r, taskName, links, images, mentionIds) ==
    (IF IsDraft(r) THEN <<BannerText, "">> ELSE <<>>)
    \o buildComment(taskName, links, images, mentionIds, IncludeMentions(r))

-----------------------------------------------------------------------------
(* Link Extractor: the preview-URL pattern and the functions that apply it. *)
(* A text (a cell, the description) is the sequence of its whitespace-      *)
(* separated words; the patterns never match across whitespace.             *)

\* s.slice(i - 1), 1-based
From(s, i) == SubSeq(s, i, Len(s))

\* https?:\/\/ at position i of the lower-cased word l
IsHttpAt(l, i) == StartsWith(From(l, i), "http://") \/ StartsWith(From(l, i), "https://")

\* first position after the scheme
BodyStart(l, i) == IF StartsWith(From(l, i), "https://") THEN i + 8 ELSE i + 7

\* \b before position i
WordBoundaryBefore(s, i) == i = 1 \/ ~IsWord(CharAt(s, i - 1))

\* [^\s)]* from position i: the last position before the next ")" or blank
RunEnd(s, i) ==
    LET stops == { j \in i..Len(s) : CharAt(s, j) = ")" \/ IsSpace(CharAt(s, j)) }
    IN  IF stops = {} THEN Len(s) ELSE (CHOOSE j \in stops : \A k \in stops : j <= k) - 1

\* \d{6,} at position i, inside the run that ends at e
SixDigitsAt(l, i, e) == i + 5 <= e /\ \A j \in i..(i + 5) : CharAt(l, j) \in DigitSet

\* (?:convert_action=convert_vpreview|convert_e=\d{6,}|convert_v=\d{6,}) at position m
MarkerAt(l, m, e) ==
    LET rest == SubSeq(l, m, e)
    IN  \/ StartsWith(rest, "convert_action=convert_vpreview")
        \/ /\ StartsWith(rest, "convert_e=") \/ StartsWith(rest, "convert_v=")
           /\ SixDigitsAt(l, m + 10, e)

\* CONFIG.linkPatterns.previewUrl matches at position i: [^\s)]+? takes at least
\* one character before the marker
PreviewUrlAt(s, l, i) ==
    /\ IsHttpAt(l, i)
    /\ WordBoundaryBefore(s, i)
    /\ \E m \in (BodyStart(l, i) + 1)..RunEnd(s, i) : MarkerAt(l, m, RunEnd(s, i))

\* word.match(CONFIG.linkPatterns.previewUrl) || [], flag g: left to right,
\* each match running to the end of its run
RECURSIVE PreviewMatchesFrom(_, _, _)
PreviewMatchesFrom(s, l, i) ==
    IF i > Len(s) THEN <<>>
    ELSE IF PreviewUrlAt(s, l, i)
         THEN <<SubSeq(s, i, RunEnd(s, i))>> \o PreviewMatchesFrom(s, l, RunEnd(s, i) + 1)
         ELSE PreviewMatchesFrom(s, l, i + 1)

PreviewMatches(word) == PreviewMatchesFrom(word, ToLowerCase(word), 1)

\* word.match(/\bhttps?:\/\/[^\s)]+/gi) || []
RECURSIVE UrlMatchesFrom(_, _, _)
UrlMatchesFrom(s, l, i) ==
    IF i > Len(s) THEN <<>>
    ELSE IF IsHttpAt(l, i) /\ WordBoundaryBefore(s, i) /\ RunEnd(s, i) >= BodyStart(l, i)
         THEN <<SubSeq(s, i, RunEnd(s, i))>> \o UrlMatchesFrom(s, l, RunEnd(s, i) + 1)
         ELSE UrlMatchesFrom(s, l, i + 1)

UrlMatches(word) == UrlMatchesFrom(word, ToLowerCase(word), 1)

\* the preview URLs of a text, in reading order
RECURSIVE PreviewLinksOf(_)
PreviewLinksOf(words) ==
    IF words = <<>> THEN <<>> ELSE PreviewMatches(Head(words)) \o PreviewLinksOf(Tail(words))

\* extractUrlsFromText
RECURSIVE extractUrlsFromText(_)
extractUrlsFromText(words) ==
    IF words = <<>> THEN <<>> ELSE UrlMatches(Head(words)) \o extractUrlsFromText(Tail(words))

\* extractPreviewLinksFromText(descUrls.join("\n"))
extractPreviewLinksFromText(urls) == PreviewLinksOf(urls)

\* a worksheet: its name and the words of its cells, row by row
Sheet(name, cells) == [name |-> name, cells |-> cells]

\* the preview URLs of the sheets wb[i..], in sheet order
RECURSIVE SheetLinksFrom(_, _)
SheetLinksFrom(wb, i) ==
    IF i > Len(wb) THEN <<>> ELSE PreviewLinksOf(wb[i].cells) \o SheetLinksFrom(wb, i + 1)

\* sharepoint.js (old): extractPreviewLinksFromXlsx, every sheet into one Set
extractPreviewLinksFromXlsxOld(wb) == Dedup(SheetLinksFrom(wb, 1))

\* sharepoint.js (new): the sheet named "Preview Links", else wb.SheetNames[0]
SheetIndexNew(wb) ==
    LET named == FindIndex({ i \in 1..Len(wb) : normalize(wb[i].name) = normalize("Preview Links") })
    IN  IF named # 0 THEN named ELSE IF wb # <<>> THEN 1 ELSE 0

\* sharepoint.js (new): extractPreviewLinksFromXlsx, that one sheet into a Set
extractPreviewLinksFromXlsxNew(wb) ==
    IF SheetIndexNew(wb) = 0 THEN <<>> ELSE Dedup(PreviewLinksOf(wb[SheetIndexNew(wb)].cells))

extractPreviewLinksFromXlsx(sp, wb) ==
    IF sp = "new" THEN extractPreviewLinksFromXlsxNew(wb) ELSE extractPreviewLinksFromXlsxOld(wb)

-----------------------------------------------------------------------------
(* SpecLinks: extractPreviewLinksFromXlsx of each sharepoint.js revision   *)
(* on workbooks of at most MaxSheets sheets of at most MaxCells cells.     *)

MaxSheets == 2
MaxCells == 2

SheetNamePool == { "Sheet1", "Preview Links", " preview  links " }

CellPool ==
    { "note",
      "http://x/a?convert_e=123456",
      "HTTP://x/a?convert_e=123456",
      "(https://y/b?convert_action=convert_vpreview)",
      "http://x/c?convert_v=12345" }

LinksInit ==
    /\ xSp \in SpRevisions
    /\ xTitle = ""
    /\ xItems = <<>>
    /\ xResult = [done |-> FALSE, idx |-> 0]
    /\ xWorkbook = <<>>
    /\ xLinks = [done |-> FALSE, links |-> <<>>]
    /\ NormIdle
    /\ CheckboxIdle
    /\ RunIdle
    /\ ImagesIdle
    /\ ComposeIdle
    /\ FolderIdle
    /\ DispatchIdle

\* the workbook gets one more sheet
AddSheet ==
    /\ ~xLinks.done
    /\ Len(xWorkbook) < MaxSheets
    /\ \E n \in SheetNamePool :
         /\ \A i \in 1..Len(xWorkbook) : xWorkbook[i].name # n
         /\ xWorkbook' = Append(xWorkbook, Sheet(n, <<>>))
    /\ UNCHANGED <<xLinks, excelVars, normVars, checkboxVars, runVars, imageVars, composeVars,
                   folderVars, dispatchVars>>

\* its last sheet gets one more cell
AddCell ==
    /\ ~xLinks.done
    /\ xWorkbook # <<>>
    /\ Len(xWorkbook[Len(xWorkbook)].cells) < MaxCells
    /\ \E w \in CellPool :
         xWorkbook' = [xWorkbook EXCEPT ![Len(xWorkbook)].cells = Append(@, w)]
    /\ UNCHANGED <<xLinks, excelVars, normVars, checkboxVars, runVars, imageVars, composeVars,
                   folderVars, dispatchVars>>

\* extractPreviewLinksFromXlsx(buf)
ExtractLinks ==
    /\ ~xLinks.done
    /\ xLinks' = [done |-> TRUE, links |-> extractPreviewLinksFromXlsx(xSp, xWorkbook)]
    /\ UNCHANGED <<xWorkbook, excelVars, normVars, checkboxVars, runVars, imageVars,
                   composeVars, folderVars, dispatchVars>>

LinksNext == AddSheet \/ AddCell \/ ExtractLinks

SpecLinks == LinksInit /\ [][LinksNext]_vars

\* C14: extraction scans every sheet, whatever its name: a matching preview URL in
\* any cell of any sheet is among the extracted links.
C14_EverySheetScanned ==
    xLinks.done =>
        \A i \in 1..Len(xWorkbook) :
            \A c \in 1..Len(xWorkbook[i].cells) :
                \A k \in 1..Len(PreviewMatches(xWorkbook[i].cells[c])) :
                    \E j \in 1..Len(xLinks.links) :
                        xLinks.links[j] = PreviewMatches(xWorkbook[i].cells[c])[k]

-----------------------------------------------------------------------------
(* Spec: one run of post-qa.js, one external call per step.                *)

TaskName == "Task A"
FolderUrl == "https://sp.example/qa"

StatusPool ==
    { "Needs Approval (Dev)", "needs approval dev", "Needs Approval (Dev) - Hold",
      "QA", "qa  (dev)", "QA Dev", "Strategy", "", "Client Review" }

GateFields == { NoField, BoolValue(TRUE), BoolValue(FALSE), StrValue("yes"), NumValue(0) }

RecheckFields == { BoolValue(TRUE), BoolValue(FALSE) }

RequiredStatuses(r) == { DefaultRequiredStatus(r), "Client Review" }

PngEntry == Entry("shot.png", FALSE, "image/png")
ScanEntry == Entry("scan-01", FALSE, "image/jpeg")

RootListings ==
    { <<>>,
      <<Entry("Task A.xlsx", FALSE, XlsxMime), PngEntry>>,
      <<Entry("Task A - v2", TRUE, ""), Entry("random.xlsx", FALSE, XlsxMime), PngEntry>>,
      <<PngEntry, ScanEntry>> }

\* what listFolderChildren returns for the matched subfolder
ChildListings ==
    { <<>>,
      <<Entry("preview-notes.xlsx", FALSE, XlsxMime), Entry("inner-1.png", FALSE, "image/png"),
        Entry("inner-2.jpg", FALSE, "image/jpeg")>> }

PreviewUrl1 == "http://x/a?convert_e=123456"
PreviewUrl2 == "https://y/b?convert_v=1234567"

\* the workbooks downloadItemBuffer may deliver
WorkbookPool ==
    { <<Sheet("Sheet1", <<"Preview", PreviewUrl1, PreviewUrl2, PreviewUrl1>>)>>,
      <<Sheet("Sheet1", <<"notes">>), Sheet("Links", <<PreviewUrl2>>)>>,
      <<Sheet("Sheet1", <<"notes">>)>>,
      <<Sheet("Summary", <<PreviewUrl1>>), Sheet("Preview Links", <<PreviewUrl2>>)>> }

\* task.description, word by word
DescriptionPool ==
    { <<>>,
      <<"See", PreviewUrl2, "(" \o PreviewUrl1 \o ")", PreviewUrl2, "https://example.com/plain">> }

\* task.attachments: title, mime_type and url of each
AttachmentPool ==
    { <<>>,
      <<[title |-> "brief.pdf", mime |-> "application/pdf", url |-> "https://t.example/att/brief.pdf"],
        [title |-> "old.png", mime |-> "", url |-> "https://t.example/att/old.png"],
        [title |-> "", mime |-> "IMAGE/JPEG", url |-> "https://t.example/att/3"]>> }

\* the label -> id map CONFIG.clickup.mentionMap is empty in every revision
MentionIds == <<>>

UploadedUrl(name) == "https://t.example/att/" \o name

Init ==
    /\ rev \in Revisions
    /\ sharepoint \in (IF rev = "B" THEN {"new"} ELSE SpRevisions)
    /\ requiredStatus \in RequiredStatuses(rev)
    /\ pc = "start"
    /\ outcome = "running"
    /\ exitCode = -1
    /\ task = NoTask
    /\ task2 = NoTask
    /\ statusNow = ""
    /\ statusOk = FALSE
    /\ passedQA = FALSE
    /\ gate = "pending"
    /\ calls = NoCalls
    /\ comments = <<>>
    /\ failPostThrew = FALSE
    /\ listing = <<>>
    /\ previewLinks = <<>>
    /\ imageItems = <<>>
    /\ uploadedImages = <<>>
    /\ rootItems = <<>>
    /\ excelItem = 0
    /\ workbook = <<>>
    /\ failedImages = <<>>
    /\ threw = {}
    /\ description = <<>>
    /\ attachments = <<>>
    /\ tokenAnswer = ""
    /\ ImagesIdle
    /\ LinksIdle
    /\ ComposeIdle
    /\ FolderIdle
    /\ DispatchIdle
    /\ NormIdle
    /\ CheckboxIdle
    /\ ExcelIdle

otherVars == <<normVars, checkboxVars, excelVars, pureVars>>

\* an uncaught error reaches the catch of run(): process.exit(1)
Fatal ==
    /\ pc' = "done"
    /\ outcome' = "fatal"
    /\ exitCode' = 1

\* 1) Load task + validate gates: cuGet returns the work item
Start ==
    /\ pc = "start"
    /\ \E status \in StatusPool, passed \in GateFields, docUrl \in {"", FolderUrl} :
         LET ok == StatusMatches(rev, status, requiredStatus)
             pq == isCheckboxChecked(rev, passed)
             next == PcAfterFirstEval(rev, ok, pq, status, docUrl)
         IN  /\ task' = [name |-> TaskName, status |-> status, passed |-> passed,
                         docUrl |-> docUrl]
             /\ statusNow' = status
             /\ statusOk' = ok
             /\ passedQA' = pq
             /\ pc' = next
             /\ gate' = GateAt(next, ok, pq)
             /\ outcome' = OutcomeAt(next, ok, pq)
             /\ exitCode' = IF next = "done" THEN 0 ELSE -1
    /\ calls' = [calls EXCEPT !.get = @ + 1]
    /\ UNCHANGED <<rev, sharepoint, requiredStatus, task2, comments, failPostThrew,
                   storageVars, otherVars>>

\* the storage variables other than threw and tokenAnswer
storageData == <<listing, previewLinks, imageItems, uploadedImages, rootItems, excelItem,
                 workbook, failedImages, description, attachments>>

\* cuGet throws: the work item cannot be read
StartFails ==
    /\ pc = "start"
    /\ calls' = [calls EXCEPT !.get = @ + 1]
    /\ threw' = threw \cup {"get"}
    /\ Fatal
    /\ UNCHANGED <<rev, sharepoint, requiredStatus, gateVars, comments, failPostThrew,
                   storageData, tokenAnswer, otherVars>>

\* Safety-net: sleep(1500), cuGet again, statusNow and statusOk from t2
Recheck ==
    /\ pc = "recheck"
    /\ \E status \in StatusPool, passed \in RecheckFields :
         LET ok == StatusMatches(rev, status, requiredStatus)
             next == PcAfterRecheck(rev, ok, passedQA, status, task.docUrl)
         IN  /\ task2' = [name |-> TaskName, status |-> status, passed |-> passed,
                          docUrl |-> task.docUrl]
             /\ statusNow' = status
             /\ statusOk' = ok
             /\ pc' = next
             /\ gate' = GateAt(next, ok, passedQA)
             /\ outcome' = OutcomeAt(next, ok, passedQA)
             /\ exitCode' = IF next = "done" THEN 0 ELSE -1
    /\ calls' = [calls EXCEPT !.get = @ + 1]
    /\ UNCHANGED <<rev, sharepoint, requiredStatus, task, passedQA, comments, failPostThrew,
                   storageVars, otherVars>>

\* mutant of RecheckFails: the error of the re-check cuGet is caught and the run
\* decides on what the first fetch saw
RecheckFails_Swallowed ==
    /\ pc = "recheck"
    /\ calls' = [calls EXCEPT !.get = @ + 1]
    /\ threw' = threw \cup {"get"}
    /\ pc' = PcAfterDecision(statusOk, passedQA, task.docUrl)
    /\ gate' = FinalDecision(statusOk, passedQA)
    /\ outcome' = OutcomeAt(PcAfterDecision(statusOk, passedQA, task.docUrl), statusOk, passedQA)
    /\ exitCode' = IF PcAfterDecision(statusOk, passedQA, task.docUrl) = "done" THEN 0 ELSE -1
    /\ UNCHANGED <<rev, sharepoint, requiredStatus, task, task2, statusNow, statusOk, passedQA,
                   comments, failPostThrew, storageData, tokenAnswer, otherVars>>

\* the re-check cuGet throws
RecheckFails ==
    /\ pc = "recheck"
    /\ calls' = [calls EXCEPT !.get = @ + 1]
    /\ threw' = threw \cup {"get"}
    /\ Fatal
    /\ UNCHANGED <<rev, sharepoint, requiredStatus, gateVars, comments, failPostThrew,
                   storageData, tokenAnswer, otherVars>>

\* mutant of PostFail: the error of cuPost is not caught
PostFail_Propagates ==
    /\ pc = "postFail"
    /\ calls' = [calls EXCEPT !.post = @ + 1]
    /\ \/ /\ comments' = Append(comments,
                [kind |-> "fail", text |-> <<FailMsg(rev, requiredStatus, statusNow)>>,
                 links |-> <<>>, images |-> <<>>])
          /\ pc' = "done"
          /\ outcome' = "gate_failed"
          /\ exitCode' = 0
          /\ UNCHANGED failPostThrew
       \/ /\ failPostThrew' = TRUE
          /\ Fatal
          /\ UNCHANGED comments
    /\ UNCHANGED <<rev, sharepoint, requiredStatus, gateVars, storageVars, otherVars>>

\* mutant of PostFail: the return after the failure comment is missing
PostFail_NoReturn ==
    /\ pc = "postFail"
    /\ calls' = [calls EXCEPT !.post = @ + 1]
    /\ \/ /\ comments' = Append(comments,
                [kind |-> "fail", text |-> <<FailMsg(rev, requiredStatus, statusNow)>>,
                 links |-> <<>>, images |-> <<>>])
          /\ UNCHANGED failPostThrew
       \/ /\ failPostThrew' = TRUE
          /\ UNCHANGED comments
    /\ pc' = IF task.docUrl = "" THEN "done" ELSE "token"
    /\ outcome' = IF task.docUrl = "" THEN "nothing_to_do" ELSE "running"
    /\ exitCode' = IF task.docUrl = "" THEN 0 ELSE -1
    /\ UNCHANGED <<rev, sharepoint, requiredStatus, gateVars, storageVars, otherVars>>

\* Final decision failed: try { cuPost(failMsg) } catch { warn }; return
PostFail ==
    /\ pc = "postFail"
    /\ calls' = [calls EXCEPT !.post = @ + 1]
    /\ \/ /\ comments' = Append(comments,
                [kind |-> "fail", text |-> <<FailMsg(rev, requiredStatus, statusNow)>>,
                 links |-> <<>>, images |-> <<>>])
          /\ UNCHANGED failPostThrew
       \/ /\ failPostThrew' = TRUE
          /\ UNCHANGED comments
    /\ pc' = "done"
    /\ outcome' = "gate_failed"
    /\ exitCode' = 0
    /\ UNCHANGED <<rev, sharepoint, requiredStatus, gateVars, storageVars, otherVars>>

\* the identity provider: a token, no credentials in the environment, a response
\* that is not ok, or a fetch that rejects
TokenAnswers == {"granted", "noCredentials", "httpError", "networkError"}

\* what getGraphToken does with each answer of the identity provider
TokenResult(sp, answer) ==
    IF answer = "granted" THEN "token"
    ELSE IF answer = "noCredentials" THEN "null"
    ELSE IF answer = "httpError" THEN (IF sp = "new" THEN "throws" ELSE "null")
    ELSE "throws"

\* 3) getGraphToken(), outside the try that guards the storage calls
GetToken ==
    /\ pc = "token"
    /\ calls' = [calls EXCEPT !.token = @ + 1]
    /\ \E answer \in TokenAnswers :
         LET res == TokenResult(sharepoint, answer)
         IN  /\ tokenAnswer' = answer
             /\ IF res = "throws"
                THEN /\ threw' = threw \cup {"token"}
                     /\ Fatal
                ELSE /\ pc' = IF res = "token" THEN "list" ELSE "post"
                     /\ UNCHANGED <<threw, outcome, exitCode>>
    /\ UNCHANGED <<rev, sharepoint, requiredStatus, gateVars, comments, failPostThrew,
                   storageData, otherVars>>

PcImages(imgs) == IF imgs = <<>> THEN "post" ELSE "images"

\* mutant of OnStorageError: the error of a storage call is not caught
OnStorageError_Rethrows == Fatal

\* catch (err) { console.warn("SharePoint parse warning:", ...) }: on to step 4
OnStorageError ==
    /\ pc' = "post"
    /\ UNCHANGED <<outcome, exitCode>>

\* 3a) with the listing to match in hand: pick the spreadsheet
MatchIn(L) ==
    LET excel == findExcelForTask(sharepoint, L, task.name)
    IN  /\ listing' = L
        /\ excelItem' = excel
        /\ IF excel # 0
           THEN /\ pc' = "excel"
                /\ imageItems' = <<>>
           ELSE /\ pc' = PcImages(getImageFiles(sharepoint, L))
                /\ imageItems' = getImageFiles(sharepoint, L)

\* listFolderItems of the QA Doc folder; revision B drills into a matching subfolder
ListRoot ==
    /\ pc = "list"
    /\ calls' = [calls EXCEPT !.list = @ + 1]
    /\ \/ /\ \E L \in RootListings :
               /\ rootItems' = L
               /\ IF rev = "B" /\ findTaskSubfolder(L, task.name) # 0
                  THEN /\ pc' = "children"
                       /\ listing' = L
                       /\ UNCHANGED <<excelItem, imageItems>>
                  ELSE MatchIn(L)
          /\ UNCHANGED <<threw, outcome, exitCode>>
       \/ /\ threw' = threw \cup {"list"}
          /\ OnStorageError
          /\ UNCHANGED <<rootItems, listing, excelItem, imageItems>>
    /\ UNCHANGED <<rev, sharepoint, requiredStatus, gateVars, comments, failPostThrew,
                   previewLinks, uploadedImages, workbook, failedImages, description,
                   attachments, tokenAnswer, otherVars>>

\* listFolderChildren of the matched subfolder
ListChildren ==
    /\ pc = "children"
    /\ calls' = [calls EXCEPT !.list = @ + 1]
    /\ \/ /\ \E L \in ChildListings : MatchIn(L)
          /\ UNCHANGED <<threw, outcome, exitCode>>
       \/ /\ threw' = threw \cup {"list"}
          /\ OnStorageError
          /\ UNCHANGED <<listing, excelItem, imageItems>>
    /\ UNCHANGED <<rev, sharepoint, requiredStatus, gateVars, comments, failPostThrew,
                   previewLinks, uploadedImages, rootItems, workbook, failedImages,
                   description, attachments, tokenAnswer, otherVars>>

\* downloadItemBuffer of the spreadsheet, then extractPreviewLinksFromXlsx
DownloadExcel ==
    /\ pc = "excel"
    /\ calls' = [calls EXCEPT !.download = @ + 1]
    /\ \/ /\ \E wb \in WorkbookPool :
               /\ workbook' = wb
               /\ previewLinks' = extractPreviewLinksFromXlsx(sharepoint, wb)
          /\ imageItems' = getImageFiles(sharepoint, listing)
          /\ pc' = PcImages(getImageFiles(sharepoint, listing))
          /\ UNCHANGED <<threw, outcome, exitCode>>
       \/ /\ threw' = threw \cup {"download"}
          /\ OnStorageError
          /\ UNCHANGED <<workbook, previewLinks, imageItems>>
    /\ UNCHANGED <<rev, sharepoint, requiredStatus, gateVars, comments, failPostThrew,
                   listing, uploadedImages, rootItems, excelItem, failedImages,
                   description, attachments, tokenAnswer, otherVars>>

\* 3b) one turn of the image loop: download, then upload; an error of either
\* leaves the try block, which encloses the whole loop
RepublishImage ==
    /\ pc = "images"
    /\ imageItems # <<>>
    /\ \/ /\ calls' = [calls EXCEPT !.download = @ + 1, !.upload = @ + 1]
          /\ uploadedImages' = Append(uploadedImages,
                [name |-> Head(imageItems).name, url |-> UploadedUrl(Head(imageItems).name)])
          /\ imageItems' = Tail(imageItems)
          /\ pc' = PcImages(Tail(imageItems))
          /\ UNCHANGED <<threw, failedImages, outcome, exitCode>>
       \/ /\ calls' = [calls EXCEPT !.download = @ + 1, !.upload = @ + 1]
          /\ threw' = threw \cup {"upload"}
          /\ failedImages' = Append(failedImages, Head(imageItems).name)
          /\ OnStorageError
          /\ UNCHANGED <<uploadedImages, imageItems>>
       \/ /\ calls' = [calls EXCEPT !.download = @ + 1]
          /\ threw' = threw \cup {"download"}
          /\ failedImages' = Append(failedImages, Head(imageItems).name)
          /\ OnStorageError
          /\ UNCHANGED <<uploadedImages, imageItems>>
    /\ UNCHANGED <<rev, sharepoint, requiredStatus, gateVars, comments, failPostThrew,
                   listing, previewLinks, rootItems, excelItem, workbook, description,
                   attachments, tokenAnswer, otherVars>>

\* selectTaskImageAttachments with restrictToQAishNames = false: the attachments
\* whose mime type starts with "image/" or whose name has an image extension
selectTaskImageAttachments(atts) ==
    LET isImage(att) ==
            \/ StartsWith(ToLowerCase(att.mime), "image/")
            \/ HasImageExt(ToLowerCase(att.title))
    IN  SelectSeq(atts, isImage)

\* .map((a) => ({ name: a.title || a.name || "image", url: a.url }))
TaskAttachments(atts) ==
    [ i \in 1..Len(selectTaskImageAttachments(atts)) |->
        [name |-> IF selectTaskImageAttachments(atts)[i].title = "" THEN "image"
                  ELSE selectTaskImageAttachments(atts)[i].title,
         url |-> selectTaskImageAttachments(atts)[i].url] ]

\* mutant of FinalImages: the task's attachments are added to the republished images
FinalImages_Both(uploaded, taskAttachments) == uploaded \o taskAttachments

\* const finalImages = uploadedImages.length ? uploadedImages : taskAttachments
FinalImages(uploaded, taskAttachments) ==
    IF uploaded # <<>> THEN uploaded ELSE taskAttachments

\* mutant of LinksOrFallback: the description's links are added to the sheet's
LinksOrFallback_Merge(sheetLinks, desc) ==
    sheetLinks \o extractPreviewLinksFromText(extractUrlsFromText(desc))

\* 4) if (!previewLinks.length) previewLinks = the preview links of task.description
LinksOrFallback(sheetLinks, desc) ==
    IF sheetLinks = <<>>
    THEN extractPreviewLinksFromText(extractUrlsFromText(desc))
    ELSE sheetLinks

\* 4)-6) fallbacks, buildComment, cuPost. The description and the attachments
\* belong to the work item of the first cuGet; nothing reads them before this
\* step, so they are drawn here.
PostComment ==
    /\ pc = "post"
    /\ calls' = [calls EXCEPT !.post = @ + 1]
    /\ \E desc \in DescriptionPool, atts \in AttachmentPool :
         LET links == LinksOrFallback(previewLinks, desc)
             taskAttachments == TaskAttachments(atts)
             finalImages == FinalImages(uploadedImages, taskAttachments)
             uniqueLinks == Dedup(links)
         IN  /\ description' = desc
             /\ attachments' = taskAttachments
             /\ previewLinks' = links
             /\ \/ /\ comments' = Append(comments,
                         [kind |-> "final",
                          text |-> CommentText(rev, task.name, uniqueLinks, finalImages,
                                               MentionIds),
                          links |-> uniqueLinks,
                          images |-> finalImages])
                   /\ pc' = "done"
                   /\ outcome' = "posted"
                   /\ exitCode' = 0
                   /\ UNCHANGED threw
                \/ /\ threw' = threw \cup {"post"}
                   /\ Fatal
                   /\ UNCHANGED comments
    /\ UNCHANGED <<rev, sharepoint, requiredStatus, gateVars, failPostThrew, listing,
                   imageItems, uploadedImages, rootItems, excelItem, workbook,
                   failedImages, tokenAnswer, otherVars>>

Next ==
    \/ Start
    \/ StartFails
    \/ Recheck
    \/ RecheckFails
    \/ PostFail
    \/ GetToken
    \/ ListRoot
    \/ ListChildren
    \/ DownloadExcel
    \/ RepublishImage
    \/ PostComment

Spec == Init /\ [][Next]_vars

-----------------------------------------------------------------------------
(* Gate claims                                                             *)

PastGatePcs == {"token", "list", "children", "excel", "images", "post"}

StorageCalls == calls.token + calls.list + calls.download + calls.upload

\* the run took the re-check and came to a decision after it
Rechecked == calls.get = 2 /\ gate # "pending"

C2_AtMostOneRecheck == calls.get <= 2

\* after the re-check the status is a pending label again, the checkbox is checked,
\* and the run has gone on to the failure comment with two fetches made
C2_Witness ==
    /\ calls.get = 2
    /\ rev = "B"
    /\ IsPendingB(statusNow)
    /\ passedQA
    /\ task2.passed = BoolValue(TRUE)
    /\ pc = "done"
    /\ outcome = "gate_failed"

\* C3: after a re-check the decision is recomputed from the re-fetched work item:
\* the run passes exactly when the status and the checkbox of the re-fetched item
\* pass.
C3_DecisionFromFreshItem ==
    Rechecked =>
        (gate = "passed" <=>
            /\ normalize(task2.status) = normalize(requiredStatus)
            /\ CheckedByRule(task2.passed))

\* C4: in a run whose gate fails (status mismatch or checkbox unchecked) no token
\* is acquired, no folder is listed, nothing is downloaded or uploaded, and the
\* only comment posted is the gate-failure comment.
C4_GateFailureTouchesNoStorage ==
    (gate # "pending" /\ (~statusOk \/ ~passedQA)) =>
        /\ StorageCalls = 0
        /\ Len(comments) <= 1
        /\ \A i \in 1..Len(comments) : comments[i].kind = "fail"

\* the checkbox alone fails the gate, and the run has ended with the one comment
C4_Witness ==
    /\ gate = "failed"
    /\ statusOk
    /\ ~passedQA
    /\ task.docUrl = FolderUrl
    /\ pc = "done"
    /\ Len(comments) = 1

\* C5: the gate-failure comment posted holds the configured required status and
\* the status observed at the final decision.
C5_FailureCommentNamesStatuses ==
    \A i \in 1..Len(comments) :
        comments[i].kind = "fail" =>
            /\ Includes(comments[i].text[1], requiredStatus)
            /\ Includes(comments[i].text[1], statusNow)

\* C6: when posting the gate-failure comment fails, the error is swallowed: the run
\* ends gate-failed with exit code 0, and that post was its last external call.
C6_FailurePostErrorSwallowed ==
    failPostThrew =>
        /\ pc = "done"
        /\ outcome = "gate_failed"
        /\ exitCode = 0
        /\ comments = <<>>
        /\ StorageCalls = 0
        /\ calls.post = 1

\* the failure comment could not be posted after a re-check
C6_Witness ==
    /\ failPostThrew
    /\ calls.get = 2
    /\ rev = "C"
    /\ outcome = "gate_failed"

-----------------------------------------------------------------------------
(* Storage claims.                                                         *)

\* the entries of a listing, as a set
Entries(L) == { L[i] : i \in 1..Len(L) }

\* the names of the images the run has tried to republish
TriedImages ==
    { uploadedImages[i].name : i \in 1..Len(uploadedImages) }
    \cup { failedImages[i] : i \in 1..Len(failedImages) }

\* C11: when a subfolder of the root listing matches the task title, exactly one
\* more listing call is made and the spreadsheet and the images are matched in the
\* subfolder's listing, never in the root listing; when none matches, no further
\* listing call is made and matching uses the root listing. No run lists more
\* than twice.
C11_SubfolderDrillDown ==
    /\ calls.list <= 2
    /\ (calls.list >= 1 /\ pc # "children") =>
          IF findTaskSubfolder(rootItems, task.name) # 0
          THEN /\ calls.list = 2
               /\ excelItem # 0 => listing[excelItem] \notin Entries(rootItems)
               /\ \A f \in Entries(rootItems) : f.name \notin TriedImages
          ELSE /\ calls.list = 1
               /\ listing = rootItems

\* revision B has drilled into "Task A - v2" and republished an image of it
C11_Witness ==
    /\ rev = "B"
    /\ findTaskSubfolder(rootItems, task.name) # 0
    /\ calls.list = 2
    /\ excelItem # 0
    /\ uploadedImages # <<>>

-----------------------------------------------------------------------------
(* Link claims of the run.                                                 *)

Range(xs) == { xs[i] : i \in 1..Len(xs) }

FirstIndex(x, xs) == CHOOSE i \in 1..Len(xs) : xs[i] = x /\ \A j \in 1..(i - 1) : xs[j] # x

\* res holds each element of raw once, ordered by first occurrence in raw
InFirstDiscoveryOrder(res, raw) ==
    /\ Range(res) = Range(raw)
    /\ \A i, j \in 1..Len(res) :
          i < j => res[i] # res[j] /\ FirstIndex(res[i], raw) < FirstIndex(res[j], raw)

\* the words of all sheets, in sheet order
RECURSIVE AllCellsFrom(_, _)
AllCellsFrom(wb, i) == IF i > Len(wb) THEN <<>> ELSE wb[i].cells \o AllCellsFrom(wb, i + 1)

\* the cells the extractor of a sharepoint.js revision reads
ScannedCells(sp, wb) ==
    IF sp = "old" THEN AllCellsFrom(wb, 1)
    ELSE IF SheetIndexNew(wb) = 0 THEN <<>> ELSE wb[SheetIndexNew(wb)].cells

\* the preview URLs of the downloaded workbook, as the extractor scans it
SheetMatches == PreviewLinksOf(ScannedCells(sharepoint, workbook))

\* the input the links of the comment were scanned from
ScannedInput == IF SheetMatches # <<>> THEN ScannedCells(sharepoint, workbook) ELSE description

FinalComments == { i \in 1..Len(comments) : comments[i].kind = "final" }

\* C13: the preview links of the final comment never hold the same string twice
\* and stand in first-discovery order, from the spreadsheet or from the
\* description: a URL occurring twice in the scanned input appears once, at the
\* position of its first occurrence.
C13_LinksDedupStable ==
    \A i \in FinalComments :
        InFirstDiscoveryOrder(comments[i].links, PreviewLinksOf(ScannedInput))

\* a comment whose scanned input held a URL twice and a second URL between
C13_Witness ==
    \E i \in FinalComments :
        /\ Len(comments[i].links) = 2
        /\ Len(PreviewLinksOf(ScannedInput)) = 3

\* C15: the description is a link source exactly when the spreadsheet path gave
\* no links: with at least one link from the spreadsheet the comment lists the
\* spreadsheet's links and no other; with none it lists exactly the URLs of the
\* description that match the preview pattern.
C15_DescriptionOnlyAsFallback ==
    \A i \in FinalComments :
        Range(comments[i].links) =
            IF SheetMatches # <<>> THEN Range(SheetMatches)
            ELSE Range(PreviewLinksOf(description))

\* the spreadsheet gave one link while the description holds another: the
\* comment lists the spreadsheet's alone
C15_Witness ==
    \E i \in FinalComments :
        /\ SheetMatches # <<>>
        /\ Range(PreviewLinksOf(description)) \ Range(SheetMatches) # {}
        /\ comments[i].links = SheetMatches

-----------------------------------------------------------------------------
(* SpecCompose: buildComment on every choice of arguments. Revision A's    *)
(* buildComment has no includeMentions parameter and no draft mode.        *)

ComposeLinkPool == { <<>>, <<PreviewUrl1>>, <<PreviewUrl1, PreviewUrl2>> }

ComposeImagePool ==
    { <<>>,
      <<[name |-> "shot.png", url |-> UploadedUrl("shot.png")]>>,
      <<[name |-> "shot.png", url |-> UploadedUrl("shot.png")],
        [name |-> "", url |-> UploadedUrl("2")]>> }

ComposeMentionPool == { <<>>, <<"101">>, <<"101", "202">> }

ComposeInputs ==
    { [composer |-> "A", isDraft |-> FALSE, includeMentions |-> TRUE, mentionIds |-> m,
       links |-> l, images |-> g] :
         m \in ComposeMentionPool, l \in ComposeLinkPool, g \in ComposeImagePool }
    \cup
    { [composer |-> "BC", isDraft |-> d, includeMentions |-> inc, mentionIds |-> m,
       links |-> l, images |-> g] :
         d \in BOOLEAN, inc \in BOOLEAN, m \in ComposeMentionPool, l \in ComposeLinkPool,
         g \in ComposeImagePool }

ComposeInit ==
    /\ cmIn \in ComposeInputs
    /\ cmOut = [done |-> FALSE, text |-> <<>>]
    /\ NormIdle
    /\ CheckboxIdle
    /\ ExcelIdle
    /\ RunIdle
    /\ ImagesIdle
    /\ LinksIdle
    /\ FolderIdle
    /\ DispatchIdle

\* buildComment({ taskName, previewLinks, images, mentionIds, includeMentions })
Compose ==
    /\ ~cmOut.done
    /\ cmOut' = [done |-> TRUE,
                 text |-> buildComment(TaskName, cmIn.links, cmIn.images, cmIn.mentionIds,
                                       cmIn.includeMentions)]
    /\ UNCHANGED <<cmIn, normVars, checkboxVars, excelVars, runVars, imageVars, linkVars,
                   folderVars, dispatchVars>>

ComposeNext == Compose

SpecCompose == ComposeInit /\ [][ComposeNext]_vars

\* a line carries a mention token
HasMention(line) == Includes(line, "<@")

LinksSectionAt(txt, l, links) ==
    IF links = <<>>
    THEN txt[l] = "_No preview links found._"
    ELSE /\ txt[l] = "**Preview Links**"
         /\ l + Len(links) <= Len(txt)
         /\ \A i \in 1..Len(links) : Includes(txt[l + i], links[i])

\* the images section stands at line g of text
ImagesSectionAt(txt, g, images) ==
    IF images = <<>>
    THEN txt[g] = "_No QA images found._"
    ELSE /\ txt[g] = "**QA Images**"
         /\ g + Len(images) <= Len(txt)
         /\ \A i \in 1..Len(images) : Includes(txt[g + i], images[i].url)

\* C17: every composed comment has a preview-links section and an images section,
\* in that order after the title line: one entry per element when the input is
\* non-empty, the placeholder line when it is empty, never omitted.
C17_BothSectionsAlways ==
    cmOut.done =>
        \E t, l, g \in 1..Len(cmOut.text) :
            /\ t < l
            /\ l + Len(cmIn.links) < g
            /\ Includes(cmOut.text[t], "Preview Links for _" \o TaskName)
            /\ LinksSectionAt(cmOut.text, l, cmIn.links)
            /\ ImagesSectionAt(cmOut.text, g, cmIn.images)

\* composed with no links and two images: placeholder, then two image entries
C17_Witness ==
    /\ cmOut.done
    /\ cmIn.links = <<>>
    /\ Len(cmIn.images) = 2
    /\ \E l \in 1..Len(cmOut.text) : cmOut.text[l] = "_No preview links found._"

-----------------------------------------------------------------------------
(* Claims on the final comment and on storage errors, under Spec.          *)

\* C18: in draft mode the submitted comment begins with the configured banner
\* line, which stands before the mention line, the title line and both sections.
C18_DraftBannerFirst ==
    IsDraft(rev) =>
        \A i \in FinalComments :
            /\ comments[i].text[1] = BannerText
            /\ \A k \in 2..Len(comments[i].text) : comments[i].text[k] # BannerText
            /\ \E t \in 2..Len(comments[i].text) :
                  Includes(comments[i].text[t], "Preview Links for _" \o task.name)

\* revision C has posted its draft
C18_Witness ==
    /\ rev = "C"
    /\ outcome = "posted"
    /\ FinalComments # {}

\* the storage calls that threw
StorageErrors == threw \cap {"list", "download", "upload"}

\* C19: after the gate has passed, an error of folder listing, file download or
\* attachment upload never aborts the run: it goes on to compose and submit the
\* final comment, and only a failure of that submission can still end it fatally.
C19_StorageErrorsDegrade ==
    StorageErrors # {} =>
        /\ gate = "passed"
        /\ pc \in {"post", "done"}
        /\ pc = "done" => \/ outcome = "posted" /\ FinalComments # {}
                          \/ "post" \in threw

\* the listing call threw and the comment was posted from the fallback sources
C19_Witness ==
    /\ "list" \in threw
    /\ outcome = "posted"
    /\ \E i \in FinalComments : comments[i].links # <<>> /\ comments[i].images # <<>>

\* C20: a download or upload failure of one image does not abort the remaining
\* images: every other image of the listing is still downloaded and uploaded, and
\* the republished images are exactly those whose download and upload succeeded.
C20_ImageFailureIsolated ==
    (pc \in {"post", "done"} /\ failedImages # <<>>) =>
        { uploadedImages[i].name : i \in 1..Len(uploadedImages) }
            = { f.name : f \in Range(getImageFiles(sharepoint, listing)) } \ Range(failedImages)

-----------------------------------------------------------------------------
(* Claims on fatal errors, the token and the end of a run, under Spec.     *)

\* C21: when a cuGet of the work item throws (the first fetch or the re-check
\* fetch) or the cuPost of the final comment throws, the run ends with exit code
\* 1 and the tracker has accepted no comment.
C21_ReadOrSubmitFailureFatal ==
    (threw \cap {"get", "post"} # {}) =>
        /\ pc = "done"
        /\ outcome = "fatal"
        /\ exitCode = 1
        /\ comments = <<>>

\* the re-check fetch threw after a first fetch that asked for it
C21_Witness ==
    /\ "get" \in threw
    /\ calls.get = 2
    /\ passedQA
    /\ ~statusOk
    /\ exitCode = 1

\* the answers of the identity provider that yield no token
NoTokenAnswers == {"noCredentials", "httpError", "networkError"}

\* C22: when the identity provider yields no token (no credentials, or a token
\* request that failed), the run does not end fatally for it: it makes no
\* listing, download or upload call and goes on to compose and submit the final
\* comment from the description's links and the work item's image attachments.
C22_AbsentTokenFallsBack ==
    tokenAnswer \in NoTokenAnswers =>
        /\ calls.list + calls.download + calls.upload = 0
        /\ pc \in {"post", "done"}
        /\ "token" \notin threw
        /\ (pc = "done" /\ "post" \notin threw) =>
              /\ outcome = "posted"
              /\ \A i \in FinalComments :
                    /\ comments[i].links
                         = Dedup(extractPreviewLinksFromText(extractUrlsFromText(description)))
                    /\ comments[i].images = attachments

\* C23: a run whose gate passed never ends as a silent success: at its end either
\* the final comment has been submitted, or the run has failed with exit code 1
\* after logging the error.
C23_NoSilentNoOp ==
    (pc = "done" /\ gate = "passed") =>
        \/ outcome = "posted" /\ FinalComments # {}
        \/ outcome = "fatal" /\ exitCode = 1 /\ threw # {}

\* the run has decided to fetch the work item a second time
RefetchTaken == pc = "recheck" \/ calls.get = 2

\* the status normalizes to one of the pending labels "QA" and "QA (Dev)"
NormalizesToPending(status) ==
    normalize(status) \in { normalize("QA"), normalize("QA (Dev)") }

\* C26: in revisions B and C, once the first fetch has been evaluated, the work
\* item is fetched again exactly when its status did not match, its checkbox was
\* checked and its status normalizes to a pending label.
C26_RefetchIffPending ==
    (rev # "A" /\ task # NoTask) =>
        (RefetchTaken <=>
            /\ normalize(task.status) # normalize(requiredStatus)
            /\ passedQA
            /\ NormalizesToPending(task.status))

\* C28: the images of the final comment are the republished storage images when
\* at least one was republished, and otherwise the image attachments of the work
\* item; attachments appear only when nothing was republished, and the two
\* sources are never mixed.
C28_ImagesFromOneSource ==
    \A i \in FinalComments :
        /\ uploadedImages # <<>> => comments[i].images = uploadedImages
        /\ uploadedImages = <<>> => comments[i].images = attachments
        /\ \/ Range(comments[i].images) \subseteq Range(uploadedImages)
           \/ Range(comments[i].images) \subseteq Range(attachments)

\* images were republished, the work item has image attachments of its own, and
\* the comment has been posted
C28_Witness ==
    /\ outcome = "posted"
    /\ uploadedImages # <<>>
    /\ attachments # <<>>
    /\ FinalComments # {}

\* C29: a run submits at most one comment: cuPost is called at most once, the
\* tracker holds at most one comment of the run, a gate-failure comment only after
\* a failed gate and a final comment only after a passed one.
C29_AtMostOneComment ==
    /\ calls.post <= 1
    /\ Len(comments) <= 1
    /\ \A i \in 1..Len(comments) :
          /\ comments[i].kind = "fail" => gate = "failed"
          /\ comments[i].kind = "final" => gate = "passed"

\* the final comment was posted after a re-check and a storage error
C29_Witness ==
    /\ calls.get = 2
    /\ StorageErrors # {}
    /\ outcome = "posted"
    /\ Len(comments) = 1
    /\ comments[1].kind = "final"

-----------------------------------------------------------------------------
(* SpecFolder: findTaskSubfolder on every listing of at most MaxItems       *)
(* entries of FolderEntryPool.                                             *)

FolderEntryPool ==
    { Entry("Task A", TRUE, ""),
      Entry("Task A - v2", TRUE, ""),
      Entry("Old Task Alpha", TRUE, ""),
      Entry("Other", TRUE, ""),
      Entry("Task A", FALSE, ""),
      Entry("task a.xlsx", FALSE, XlsxMime) }

FolderInit ==
    /\ xSp = "new"
    /\ xTitle \in TitlePool
    /\ xItems = <<>>
    /\ xResult = [done |-> FALSE, idx |-> 0]
    /\ xFolder = [done |-> FALSE, idx |-> 0]
    /\ NormIdle
    /\ CheckboxIdle
    /\ RunIdle
    /\ ImagesIdle
    /\ LinksIdle
    /\ ComposeIdle
    /\ DispatchIdle

\* the root listing grows by one entry
ListFolderEntry ==
    /\ ~xFolder.done
    /\ Len(xItems) < MaxItems
    /\ \E f \in FolderEntryPool : xItems' = Append(xItems, f)
    /\ UNCHANGED <<xSp, xTitle, xResult, xFolder, normVars, checkboxVars, runVars, imageVars,
                   linkVars, composeVars, dispatchVars>>

\* findTaskSubfolder(rootItems, taskName)
SelectFolder ==
    /\ ~xFolder.done
    /\ xFolder' = [done |-> TRUE, idx |-> findTaskSubfolder(xItems, xTitle)]
    /\ UNCHANGED <<xSp, xTitle, xItems, xResult, normVars, checkboxVars, runVars, imageVars,
                   linkVars, composeVars, dispatchVars>>

FolderNext == ListFolderEntry \/ SelectFolder

SpecFolder == FolderInit /\ [][FolderNext]_vars

\* the tier of an entry's name against the title: 1 equal, 2 title plus a space
\* as prefix, 3 title contained, 4 no match (all on normalized strings)
FolderTier(f, title) ==
    IF normalize(f.name) = normalize(title) THEN 1
    ELSE IF StartsWith(normalize(f.name), normalize(title) \o " ") THEN 2
    ELSE IF Includes(normalize(f.name), normalize(title)) THEN 3
    ELSE 4

Folders(items) == { i \in 1..Len(items) : items[i].isFolder }

\* C27: subfolder selection looks at folders only and by tier: the folder it
\* returns has the best tier (equal, then prefix followed by a space, then
\* contained) of all folders of the listing; it returns none exactly when no
\* folder's normalized name contains the normalized title, and never a file.
C27_SubfolderTiers ==
    xFolder.done =>
        IF \A i \in Folders(xItems) : FolderTier(xItems[i], xTitle) = 4
        THEN xFolder.idx = 0
        ELSE /\ xFolder.idx \in Folders(xItems)
             /\ FolderTier(xItems[xFolder.idx], xTitle) < 4
             /\ \A j \in Folders(xItems) :
                   FolderTier(xItems[xFolder.idx], xTitle) <= FolderTier(xItems[j], xTitle)

\* a file named like the title stands first, a containing folder before the
\* prefix folder: the prefix folder is returned
C27_Witness ==
    /\ xFolder.done
    /\ xTitle = "Task A"
    /\ Len(xItems) = 3
    /\ xItems[1] = Entry("Task A", FALSE, "")
    /\ xItems[2] = Entry("Old Task Alpha", TRUE, "")
    /\ xItems[3] = Entry("Task A - v2", TRUE, "")
    /\ xFolder.idx = 3

-----------------------------------------------------------------------------
(* SpecDispatch: the remote job trigger, one inbound request.              *)
(* Handler revisions: "current" src/api/dispatch.js, lines 5-91;           *)
(*                    "first"   src/api/dispatch.js, lines 108-159;        *)
(*                    "copy"    src/sharepoint.js, lines 164-246.          *)

DispatchRevisions == {"current", "first", "copy"}

Secret == "s3cret"

\* process.env: SHARED_DISPATCH_TOKEN ("": unset), and whether GH_REPO,
\* GH_WORKFLOW and GH_TOKEN are all set
EnvPool == [secret : {"", Secret}, gh : BOOLEAN]

\* q.token, the X-Auth header, the Authorization header, body.token and the task id
RequestPool ==
    [qToken : {"", Secret, "wrong", Secret \o " "},
     hToken : {"", Secret},
     auth : {"", "Bearer " \o Secret, "bearer wrong"},
     bToken : {"", Secret},
     taskId : {"", "86abc"}]

\* what the build service may answer to the workflow_dispatch call
UpstreamStatuses == {204, 200, 404, 422, 500}

\* authHdr.toLowerCase().startsWith('bearer ') ? authHdr.slice(7).trim() : ''
BearerOf(auth) ==
    IF StartsWith(ToLowerCase(Trim(auth)), "bearer ") THEN Trim(From(Trim(auth), 8)) ELSE ""

\* q.token || body.token || req.headers['x-auth'] || ''
ProvidedToken(req) ==
    IF req.qToken # "" THEN req.qToken
    ELSE IF req.bToken # "" THEN req.bToken
    ELSE req.hToken

\* mutant of AuthOk: the !!expected guard is left out
AuthOk_NoExpectedGuard(h, env, req) ==
    IF h = "first" THEN ProvidedToken(req) = env.secret
    ELSE \/ Trim(req.qToken) = Trim(env.secret)
         \/ Trim(req.hToken) = Trim(env.secret)
         \/ h = "current" /\ BearerOf(req.auth) = Trim(env.secret)

\* the shared-secret check of each revision
AuthOk(h, env, req) ==
    IF h = "first" THEN ProvidedToken(req) = env.secret
    ELSE /\ Trim(env.secret) # ""
         /\ \/ Trim(req.qToken) = Trim(env.secret)
            \/ Trim(req.hToken) = Trim(env.secret)
            \/ h = "current" /\ BearerOf(req.auth) = Trim(env.secret)

\* "first" refuses to serve before it looks at the request when a variable is unset
EnvComplete(h, env) == IF h = "first" THEN env.gh /\ env.secret # "" ELSE env.gh

\* the status the handler answers with before any call upstream (0: it forwards)
Verdict(h, env, req) ==
    IF h = "first"
    THEN IF ~EnvComplete(h, env) THEN 500
         ELSE IF ~AuthOk(h, env, req) THEN 401
         ELSE IF Trim(req.taskId) = "" THEN 400
         ELSE 0
    ELSE IF ~AuthOk(h, env, req) THEN 401
         ELSE IF Trim(req.taskId) = "" THEN 400
         ELSE IF ~EnvComplete(h, env) THEN 500
         ELSE 0

ErrorResponse(status, upstream) ==
    [status |-> status, ok |-> FALSE, taskId |-> "", upstream |-> upstream]

\* the response after the build service answered with status st
Respond(h, st, taskId) ==
    IF h = "first"
    THEN IF st >= 200 /\ st <= 299
         THEN [status |-> 200, ok |-> TRUE, taskId |-> taskId, upstream |-> 0]
         ELSE ErrorResponse(502, 0)
    ELSE IF st = 204
         THEN [status |-> 200, ok |-> TRUE, taskId |-> taskId, upstream |-> 0]
         ELSE ErrorResponse(502, st)

DispatchInit ==
    /\ dHandler \in DispatchRevisions
    /\ dEnv \in EnvPool
    /\ dReq = NoRequest
    /\ dPc = "idle"
    /\ dAuthOk = FALSE
    /\ dForwarded = <<>>
    /\ dUpstream = 0
    /\ dRes = NoResponse
    /\ NormIdle
    /\ CheckboxIdle
    /\ ExcelIdle
    /\ RunIdle
    /\ ImagesIdle
    /\ LinksIdle
    /\ ComposeIdle
    /\ FolderIdle

dispatchRest == <<normVars, checkboxVars, excelVars, runVars, imageVars, linkVars, composeVars,
                  folderVars>>

\* a request arrives
Receive ==
    /\ dPc = "idle"
    /\ dReq' \in RequestPool
    /\ dPc' = "received"
    /\ UNCHANGED <<dHandler, dEnv, dAuthOk, dForwarded, dUpstream, dRes, dispatchRest>>

\* handler, up to the fetch: the checks, then either an answer or the call upstream
Handle ==
    /\ dPc = "received"
    /\ dAuthOk' = IF dHandler = "first"
                  THEN EnvComplete(dHandler, dEnv) /\ AuthOk(dHandler, dEnv, dReq)
                  ELSE AuthOk(dHandler, dEnv, dReq)
    /\ IF Verdict(dHandler, dEnv, dReq) = 0
       THEN /\ dForwarded' = Append(dForwarded, [task |-> Trim(dReq.taskId)])
            /\ dPc' = "forwarded"
            /\ UNCHANGED dRes
       ELSE /\ dRes' = ErrorResponse(Verdict(dHandler, dEnv, dReq), 0)
            /\ dPc' = "answered"
            /\ UNCHANGED dForwarded
    /\ UNCHANGED <<dHandler, dEnv, dReq, dUpstream, dispatchRest>>

\* the build service answers
UpstreamAnswers ==
    /\ dPc = "forwarded"
    /\ \E st \in UpstreamStatuses :
         /\ dUpstream' = st
         /\ dRes' = Respond(dHandler, st, dForwarded[Len(dForwarded)].task)
    /\ dPc' = "answered"
    /\ UNCHANGED <<dHandler, dEnv, dReq, dAuthOk, dForwarded, dispatchRest>>

\* fetch rejects: catch (err), status 500
UpstreamFails ==
    /\ dPc = "forwarded"
    /\ dRes' = ErrorResponse(500, 0)
    /\ dPc' = "answered"
    /\ UNCHANGED <<dHandler, dEnv, dReq, dAuthOk, dForwarded, dUpstream, dispatchRest>>

DispatchNext == Receive \/ Handle \/ UpstreamAnswers \/ UpstreamFails

SpecDispatch == DispatchInit /\ [][DispatchNext]_vars

\* the secrets a request carries: the token of the query, of the body, of the
\* X-Auth header, and the credentials of a Bearer authorization header
SuppliedSecrets(req) == {req.qToken, req.bToken, req.hToken, BearerOf(req.auth)} \ {""}

\* C24: a job-start request is forwarded only if a secret supplied with the
\* inbound request equals the configured shared secret; a request whose secret is
\* missing or wrong is answered 401 and nothing is forwarded, whatever its task id.
C24_ForwardOnlyWithSecret ==
    /\ dForwarded # <<>> => dEnv.secret \in SuppliedSecrets(dReq)
    /\ (dPc \in {"forwarded", "answered"} /\ dEnv.secret \notin SuppliedSecrets(dReq)) =>
          /\ dRes.status = 401
          /\ dForwarded = <<>>

\* C25: when the build service answers the forwarded request with a status that
\* is not a success, the caller gets an error response that carries that status;
\* the caller gets ok with the task id only when the upstream call succeeded.
C25_UpstreamFailureSurfaced ==
    /\ (dPc = "answered" /\ dUpstream # 0 /\ ~(dUpstream >= 200 /\ dUpstream <= 299)) =>
          /\ ~dRes.ok
          /\ dRes.status >= 400
          /\ dRes.upstream = dUpstream
    /\ dRes.ok =>
          /\ dUpstream >= 200 /\ dUpstream <= 299
          /\ dRes.status = 200
          /\ dRes.taskId = dForwarded[1].task

\* C30: with the shared secret empty or unset no request passes the secret check
\* and none is forwarded, a request with an empty or no token included.
C30_UnsetSecretRejectsAll ==
    dEnv.secret = "" =>
        /\ ~dAuthOk
        /\ dForwarded = <<>>
        /\ ~dRes.ok

\* the secret is unset, everything else is configured, and a request without any
\* token but with a task id has been answered 401
C30_Witness ==
    /\ dHandler = "current"
    /\ dEnv = [secret |-> "", gh |-> TRUE]
    /\ dReq = [qToken |-> "", hToken |-> "", auth |-> "", bToken |-> "", taskId |-> "86abc"]
    /\ dPc = "answered"
    /\ dRes.status = 401

====
